---- MODULE Spec2Model ----
(***************************************************************************)
(* Animation Frame Exporter (src/__init__.py): the two export functions,   *)
(* export_multiple_animations and export_animation_frames_raw, run against *)
(* a host (scene, armature, action list) as a state machine.               *)
(*                                                                         *)
(* Names are sequences of one-character strings, so that the descriptor's  *)
(* substring test, replace() and split() are computed, not assumed.        *)
(* A float frame number (action.frame_range) is kept in half frames, so    *)
(* that int() truncates.  A 4x4 matrix is one buffer entry [pose, bone];   *)
(* it stands for MatrixFloats consecutive floats of the numpy array.       *)
(***************************************************************************)
EXTENDS Integers, Sequences, FiniteSets, TLC

\* ------------------------------------------------------------------ bounds
MaxClips == 3
MaxStep == 2
MaxFrame == 5
NumBones == 2

\* ------------------------------------------------------- program constants
transition_frames == 10
MatrixFloats == 16

\* ------------------------------------------------------------ python helpers
\* list(range(start, stop, step)) for step >= 1
PyRange(start, stop, step) ==
  IF stop <= start THEN << >>
  ELSE [k \in 1..((stop - start + step - 1) \div step) |-> start + (k - 1) * step]

\* int(x) of a float kept in half frames: truncation towards zero
PyInt(h) == IF h >= 0 THEN h \div 2 ELSE -((-h) \div 2)

\* s[i:] of a sequence (i counted from 1)
Drop(s, i) == SubSeq(s, i, Len(s))

\* whether sub occurs in s at position i
MatchAt(s, sub, i) ==
  /\ i + Len(sub) - 1 <= Len(s)
  /\ SubSeq(s, i, i + Len(sub) - 1) = sub

\* sub in s
Contains(s, sub) == \E i \in 1..Len(s) : MatchAt(s, sub, i)

\* s.replace(old, ""), old non-empty: leftmost non-overlapping occurrences
RECURSIVE Remove(_, _)
Remove(s, old) ==
  IF s = << >> THEN << >>
  ELSE IF MatchAt(s, old, 1) THEN Remove(Drop(s, Len(old) + 1), old)
  ELSE <<s[1]>> \o Remove(Drop(s, 2), old)

\* s.split(sep), sep non-empty: the list of parts
RECURSIVE SplitFrom(_, _, _)
SplitFrom(s, sep, cur) ==
  IF s = << >> THEN <<cur>>
  ELSE IF MatchAt(s, sep, 1) THEN <<cur>> \o SplitFrom(Drop(s, Len(sep) + 1), sep, << >>)
  ELSE SplitFrom(Drop(s, 2), sep, Append(cur, s[1]))

Split(s, sep) == SplitFrom(s, sep, << >>)

\* "_To_", the separator of a transition's name
ToSep == <<"_", "T", "o", "_">>

\* f"{unit_name}Rest"
RestName(unit_name) == unit_name \o <<"R", "e", "s", "t">>

\* f"{src}_To_{dst}"
TransitionName(src_name, dst_name) == src_name \o ToSep \o dst_name

\* ------------------------------------------------------------------- host
\* the names the host's actions carry, by naming scheme
Letters == <<"a", "b", "c", "d", "e", "f">>
UnitNames == { <<"u">> }
NameSchemes == {"plain", "prefixed", "leftover"}

ActionName(scheme, unit, i) ==
  CASE scheme = "prefixed" /\ i = 1 -> unit \o <<"_">> \o <<Letters[i]>>
    [] scheme = "leftover" /\ i = 2 -> <<Letters[1]>> \o ToSep \o <<Letters[i]>>
    [] OTHER -> <<Letters[i]>>

\* action.frame_range of the i-th action, in half frames
ActionFrameRange(i) == << 2 * (i % 2) + 1, 2 * (MaxFrame - (i % 3)) + 1 >>

NoPose == [a |-> <<0, 0>>, b |-> <<0, 0>>, t |-> 0]
KeyedPose(id, frame) == [a |-> <<id, frame>>, b |-> <<id, frame>>, t |-> 0]

VARIABLES
  actions,              \* bpy.data.actions
  arm,                  \* the active object
  scene,                \* context.scene: frame_current, frame_start, frame_end
  animation_list,       \* scene.animation_list
  props,                \* scene.animation_export_props
  files,                \* the files written, in order
  clipboard,            \* the pose buffer of bpy.ops.pose.copy
  pc,                   \* where the running export is
  animations_to_export,
  num_bones,
  original_frame,
  original_action,
  all_matrix_data,
  frame_counts,
  frame_steps,
  animation_ranges,
  total_frames,
  animation_helpers,
  frames_to_export,
  transitions,
  cursor,               \* the index of the loop that is running
  combined_data,        \* np.concatenate(all_matrix_data)
  single,               \* the locals of export_animation_frames_raw
  descriptor,           \* what the .js descriptor holds
  result,               \* the operator's return value
  msg,                  \* the message shown
  entry                 \* the host as the operator's execute() found it

vars == << actions, arm, scene, animation_list, props, files, clipboard,
           pc, animations_to_export, num_bones, original_frame, original_action,
           all_matrix_data, frame_counts, frame_steps, animation_ranges,
           total_frames, animation_helpers, frames_to_export, transitions,
           cursor, combined_data, single, descriptor, result, msg, entry >>

hostVars == << actions, arm, scene, animation_list, props, files, clipboard >>
localVars == << animations_to_export, num_bones, original_frame, original_action,
                all_matrix_data, frame_counts, frame_steps, animation_ranges,
                total_frames, animation_helpers, frames_to_export, transitions,
                cursor, combined_data, single, descriptor >>

None == 0

\* ---------------------------------------------------------------- settings
\* what the Edit Settings dialog can leave in a list item: the full range, a
\* custom start with custom_end = 0, a custom range, a custom range that is empty
ItemSettings ==
  { [use_full_range |-> TRUE, custom_start |-> 1, custom_end |-> 0, frame_step |-> MaxStep] }
  \cup
  { [use_full_range |-> FALSE, custom_start |-> r[1], custom_end |-> r[2], frame_step |-> r[3]]
      : r \in { <<0, 0, MaxStep>>, <<2, 3, 1>>, <<3, 2, 1>> } }

DefaultSettings ==
  [use_full_range |-> TRUE, custom_start |-> 1, custom_end |-> 0, frame_step |-> 1]

Item(action, include, st) ==
  [action |-> action, include |-> include, frame_step |-> st.frame_step,
   use_full_range |-> st.use_full_range, custom_start |-> st.custom_start,
   custom_end |-> st.custom_end]

AuthoredAction(scheme, unit, i) ==
  [name |-> ActionName(scheme, unit, i), frame_range |-> ActionFrameRange(i),
   nkeys |-> -1, key1 |-> NoPose, key10 |-> NoPose]

DefaultProps ==
  [export_mode |-> "MULTI", unit_name |-> <<"u">>, multi_export_all_frames |-> FALSE,
   export_method |-> "BIN", property_name |-> "animation_matrices",
   animation_name |-> << >>, use_custom_name |-> FALSE, start_frame |-> 1,
   end_frame |-> 0, frame_step |-> 1, export_all_frames |-> FALSE,
   use_full_animation_range |-> FALSE]

EmptyProps == [k \in {} |-> 0]

\* what an earlier single export and an earlier multi export left on the armature
\* under the default property name
StaleProps ==
  [k \in { <<"animation_matrices", "">>, <<"animation_matrices", "_numFrames">>,
           <<"animation_matrices", "_numBones">>, <<"animation_matrices", "_totalFrames">>,
           <<"animation_matrices", "_frameSteps">> } |->
     CASE k = <<"animation_matrices", "">> -> << >>
       [] k = <<"animation_matrices", "_frameSteps">> -> [str |-> << >>]
       [] OTHER -> 0]

\* the frame the scene shows before an export
SceneFrame == MaxFrame + transition_frames + 1

Armature(present, act) ==
  [present |-> present, animation_data |-> act # None, action |-> act,
   mode |-> "OBJECT", pose |-> IF act = None THEN NoPose ELSE KeyedPose(act, SceneFrame),
   custom |-> EmptyProps]

LocalsInit ==
  /\ animations_to_export = << >>
  /\ num_bones = 0
  /\ original_frame = 0
  /\ original_action = None
  /\ all_matrix_data = << >>
  /\ frame_counts = << >>
  /\ frame_steps = << >>
  /\ animation_ranges = << >>
  /\ total_frames = 0
  /\ animation_helpers = << >>
  /\ frames_to_export = << >>
  /\ transitions = << >>
  /\ cursor = 0
  /\ combined_data = << >>
  /\ single = << >>
  /\ descriptor = << >>

\* the export target with the names the host's actions carry, and the scene
\* with the action the armature shows
Targets == { <<"BIN", "plain">>, <<"BIN", "prefixed">>, <<"BIN", "leftover">>,
             <<"PROPERTY", "plain">> }
Hosts == { <<None, 1>>, <<1, 0>> }

InitMulti ==
  /\ \E target \in Targets, unit \in UnitNames, all \in BOOLEAN :
       /\ actions = [i \in 1..MaxClips |-> AuthoredAction(target[2], unit, i)]
       /\ props = [DefaultProps EXCEPT !.unit_name = unit,
                                       !.multi_export_all_frames = all,
                                       !.export_method = target[1]]
  /\ \E inc \in [1..MaxClips -> BOOLEAN], st \in [1..MaxClips -> ItemSettings \cup {DefaultSettings}] :
       /\ \A i \in 1..MaxClips : inc[i] <=> st[i] \in ItemSettings
       /\ animation_list = [i \in 1..MaxClips |-> Item(i, inc[i], st[i])]
  /\ \E host \in Hosts :
       /\ \E custom \in (IF props.export_method = "PROPERTY"
                          THEN {EmptyProps, StaleProps} ELSE {EmptyProps}) :
            arm = [Armature(TRUE, host[1]) EXCEPT !.custom = custom]
       /\ scene = [frame_current |-> SceneFrame, frame_start |-> host[2],
                   frame_end |-> MaxFrame]

\* no armature is the active object
InitNoArmature ==
  /\ actions = [i \in 1..MaxClips |-> AuthoredAction("plain", <<"u">>, i)]
  /\ animation_list = [i \in 1..MaxClips |-> Item(i, TRUE, DefaultSettings)]
  /\ \E mode \in {"SINGLE", "MULTI"} : props = [DefaultProps EXCEPT !.export_mode = mode]
  /\ arm = Armature(FALSE, None)
  /\ scene = [frame_current |-> SceneFrame, frame_start |-> 1, frame_end |-> MaxFrame]

\* the single export's settings; the list has not been refreshed yet
InitSingle ==
  /\ actions = << AuthoredAction("plain", <<"u">>, 1) >>
  /\ animation_list = << >>
  /\ \E sf \in 1..MaxFrame, ef \in 0..MaxFrame, step \in 1..MaxStep,
        all \in BOOLEAN, full \in BOOLEAN, custom \in BOOLEAN,
        method \in {"BIN", "PROPERTY"} :
       props = [DefaultProps EXCEPT !.export_mode = "SINGLE",
                                    !.start_frame = sf, !.end_frame = ef,
                                    !.frame_step = step, !.export_all_frames = all,
                                    !.use_full_animation_range = full,
                                    !.use_custom_name = custom,
                                    !.animation_name = IF custom THEN <<"n">> ELSE << >>,
                                    !.export_method = method]
  /\ \E act \in {None, 1} : arm = Armature(TRUE, act)
  /\ scene = [frame_current |-> SceneFrame, frame_start |-> 1, frame_end |-> MaxFrame]

Init ==
  /\ (InitMulti \/ InitSingle \/ InitNoArmature)
  /\ files = << >>
  /\ clipboard = NoPose
  /\ pc = "idle"
  /\ result = "NONE"
  /\ msg = "NONE"
  /\ entry = [scene |-> scene, arm |-> arm, actions |-> actions]
  /\ LocalsInit

\* ------------------------------------------------------------ host calls
\* the pose the armature shows once the scene is at `frame`
EvalPose(acts, a, frame) ==
  IF ~a.animation_data \/ a.action = None THEN a.pose
  ELSE LET act == acts[a.action] IN
    IF act.nkeys < 0 THEN KeyedPose(a.action, frame)
    ELSE IF act.nkeys = 0 THEN a.pose
    ELSE IF act.nkeys = 1 \/ frame <= 1 THEN act.key1
    ELSE IF frame >= transition_frames THEN act.key10
    ELSE [a |-> act.key1.a, b |-> act.key10.a, t |-> frame - 1]

\* scene.frame_set(frame): the armature after it
FrameSet(acts, a, frame) == [a EXCEPT !.pose = EvalPose(acts, a, frame)]

\* arm.animation_data_create() when missing, then arm.animation_data.action = act
SetAction(a, act) == [a EXCEPT !.animation_data = TRUE, !.action = act]

\* the matrices of every bone at the current pose, in bone order
CollectMatrices(pose, nb) == [k \in 1..nb |-> [pose |-> pose, bone |-> k]]

\* the except handler of either export function
Fail(m) ==
  /\ pc' = "done"
  /\ result' = "CANCELLED"
  /\ msg' = m

\* ------------------------------------------------------- frame sampling
\* frames_to_export and frame_step of a main clip
\* variant: the end frame is not appended
MultiFramesNoAppend(start_frame, end_frame, step, export_all_frames) ==
  IF export_all_frames
  THEN [frames |-> PyRange(start_frame, end_frame + 1, 1), frame_step |-> 1]
  ELSE [frames |-> PyRange(start_frame, end_frame + 1, step), frame_step |-> step]

\* variant: export_all_frames is not looked at
MultiFramesIgnoreFlag(start_frame, end_frame, step, export_all_frames) ==
  LET r == PyRange(start_frame, end_frame + 1, step) IN
  [frames |-> IF r[Len(r)] # end_frame THEN Append(r, end_frame) ELSE r,
   frame_step |-> step]

MultiFrames(start_frame, end_frame, step, export_all_frames) ==
  IF export_all_frames
  THEN [frames |-> PyRange(start_frame, end_frame + 1, 1), frame_step |-> 1]
  ELSE LET r == PyRange(start_frame, end_frame + 1, step) IN
       [frames |-> IF r[Len(r)] # end_frame THEN Append(r, end_frame) ELSE r,
        frame_step |-> step]

\* the resolved range of a list item in the main pass
ItemStart(acts, item) ==
  IF item.use_full_range THEN PyInt(acts[item.action].frame_range[1])
  ELSE item.custom_start

\* variant: custom_end is not honoured
ItemEndIgnoreCustom(acts, item) == PyInt(acts[item.action].frame_range[2])
ItemEnd(acts, item) ==
  IF item.use_full_range THEN PyInt(acts[item.action].frame_range[2])
  ELSE IF item.custom_end # 0 THEN item.custom_end
  ELSE PyInt(acts[item.action].frame_range[2])

\* the clip record of a main clip, lines 272-278
\* variant: end_idx one too far
MainRecordOffByOne(name, total, num_frames) ==
  [name |-> name, start_idx |-> total, end_idx |-> total + num_frames]
MainRecord(name, total, num_frames) ==
  [name |-> name, start_idx |-> total, end_idx |-> total + num_frames - 1]

\* the clip record of a transition, lines 376-382
TransitionRecord(name, total) ==
  [name |-> name, start_idx |-> total, end_idx |-> total + 9]

\* the buffer of a clip: frames_to_export sampled with the armature's action
\* variant: the array is one frame short
SampleBufferShort(acts, a, frames, nb) ==
  [idx \in 1..((Len(frames) - 1) * nb) |->
     [pose |-> EvalPose(acts, a, frames[((idx - 1) \div nb) + 1]),
      bone |-> ((idx - 1) % nb) + 1]]
SampleBuffer(acts, a, frames, nb) ==
  [idx \in 1..(Len(frames) * nb) |->
     [pose |-> EvalPose(acts, a, frames[((idx - 1) \div nb) + 1]),
      bone |-> ((idx - 1) % nb) + 1]]

\* -------------------------------------------- export_multiple_animations
\* [item for item in scene.animation_list if item.include and item.action], line 206
\* variant: the include flag is not looked at
ItemsWithAction(list) ==
  SelectSeq([i \in 1..Len(list) |-> i], LAMBDA i : list[i].action # None)
ItemsToExport(list) ==
  SelectSeq([i \in 1..Len(list) |-> i],
            LAMBDA i : list[i].include /\ list[i].action # None)

\* lines 198-237: the checks, the saved state and the rest pose
MultiBegin ==
  /\ pc = "idle"
  /\ UNCHANGED entry
  /\ props.export_mode = "MULTI"
  /\ IF ~arm.present
     THEN /\ Fail("Please select an armature object first")
          /\ UNCHANGED << hostVars, localVars >>
     ELSE LET included == ItemsToExport(animation_list)
              rest_frame == IF scene.frame_start <= 0 THEN 0 ELSE 1
              arm1 == FrameSet(actions, arm, rest_frame)
          IN
          IF included = << >>
          THEN /\ Fail("No animations selected for export")
               /\ animations_to_export' = included
               /\ UNCHANGED << hostVars, num_bones, original_frame, original_action,
                               all_matrix_data, frame_counts, frame_steps,
                               animation_ranges, total_frames, animation_helpers,
                               frames_to_export, transitions, cursor, combined_data,
                               single, descriptor >>
          ELSE /\ animations_to_export' = included
               /\ num_bones' = NumBones
               /\ original_frame' = scene.frame_current
               /\ original_action' = IF arm.animation_data THEN arm.action ELSE None
               /\ scene' = [scene EXCEPT !.frame_current = rest_frame]
               /\ arm' = arm1
               /\ all_matrix_data' = << CollectMatrices(arm1.pose, NumBones) >>
               /\ frame_counts' = <<1>>
               /\ frame_steps' = <<1>>
               /\ animation_ranges' = << <<rest_frame, rest_frame>> >>
               /\ total_frames' = 1
               /\ animation_helpers' =
                    << [name |-> RestName(props.unit_name), start_idx |-> 0, end_idx |-> 0] >>
               /\ cursor' = 1
               /\ pc' = "main"
               /\ UNCHANGED << actions, animation_list, props, files, clipboard,
                               frames_to_export, transitions, combined_data, single,
                               descriptor, result, msg >>

\* lines 242-292: one iteration of the loop over animations_to_export
MultiMainClip ==
  /\ pc = "main"
  /\ UNCHANGED entry
  /\ cursor <= Len(animations_to_export)
  /\ LET item == animation_list[animations_to_export[cursor]]
         action == item.action
         arm1 == SetAction(arm, action)
         start_frame == ItemStart(actions, item)
         end_frame == ItemEnd(actions, item)
     IN
     IF start_frame > end_frame
     THEN /\ Fail("Start frame cannot be after end frame")
          /\ arm' = arm1
          /\ UNCHANGED << actions, scene, animation_list, props, files, clipboard,
                          localVars >>
     ELSE LET fr == MultiFrames(start_frame, end_frame, item.frame_step,
                                props.multi_export_all_frames)
              num_frames == Len(fr.frames)
              last == fr.frames[num_frames]
          IN
          /\ frames_to_export' = fr.frames
          /\ frame_counts' = Append(frame_counts, num_frames)
          /\ frame_steps' = Append(frame_steps, fr.frame_step)
          /\ animation_ranges' = Append(animation_ranges, <<start_frame, end_frame>>)
          /\ animation_helpers' = Append(animation_helpers,
               MainRecord(actions[action].name, total_frames, num_frames))
          /\ total_frames' = total_frames + num_frames
          /\ all_matrix_data' = Append(all_matrix_data,
               SampleBuffer(actions, arm1, fr.frames, num_bones))
          /\ scene' = [scene EXCEPT !.frame_current = last]
          /\ arm' = FrameSet(actions, arm1, last)
          /\ cursor' = cursor + 1
          /\ UNCHANGED << actions, animation_list, props, files, clipboard, pc,
                          animations_to_export, num_bones, original_frame,
                          original_action, transitions, combined_data, single,
                          descriptor, result, msg >>

\* ------------------------------------------------ transition synthesizer
\* [(src, dst) for src in animations_to_export for dst in animations_to_export if src != dst]
RECURSIVE PairsFrom(_, _, _)
PairsFrom(items, i, j) ==
  IF i > Len(items) THEN << >>
  ELSE IF j > Len(items) THEN PairsFrom(items, i + 1, 1)
  ELSE (IF items[i] # items[j] THEN << <<items[i], items[j]>> >> ELSE << >>)
       \o PairsFrom(items, i, j + 1)

\* variant: destinations outer, sources inner
RECURSIVE PairsDstOuter(_, _, _)
PairsDstOuter(items, i, j) ==
  IF i > Len(items) THEN << >>
  ELSE IF j > Len(items) THEN PairsDstOuter(items, i + 1, 1)
  ELSE (IF items[i] # items[j] THEN << <<items[j], items[i]>> >> ELSE << >>)
       \o PairsDstOuter(items, i, j + 1)

TransitionPairsAlt(items) == PairsDstOuter(items, 1, 1)
TransitionPairs(items) == PairsFrom(items, 1, 1)

\* last_frame(item) and first_frame(item), lines 300-304
\* variant: the action's end whatever the custom range
last_frame_alt(acts, item) == PyInt(acts[item.action].frame_range[2])
last_frame(acts, item) ==
  IF item.use_full_range THEN PyInt(acts[item.action].frame_range[2])
  ELSE IF item.custom_end # 0 THEN item.custom_end
  ELSE PyInt(acts[item.action].frame_range[2])

first_frame(acts, item) ==
  IF item.use_full_range THEN PyInt(acts[item.action].frame_range[1])
  ELSE item.custom_start

\* bpy.data.actions.new(name=...): the host keeps action names unique
Suffixes == << <<".001">>, <<".002">>, <<".003">> >>
UniqueName(acts, name) ==
  LET taken == { acts[i].name : i \in 1..Len(acts) } IN
  IF name \notin taken THEN name
  ELSE LET free == { k \in 1..Len(Suffixes) : (name \o Suffixes[k]) \notin taken } IN
       name \o Suffixes[CHOOSE k \in free : \A m \in free : k <= m]

\* the frames baked for a transition (lines 357-360)
\* variant: a bridging step of 2 unless every frame is asked for
TransitionStepTwo(multi_export_all_frames) == IF multi_export_all_frames THEN 1 ELSE 2
TransitionStep(multi_export_all_frames) == IF multi_export_all_frames THEN 1 ELSE 1

\* variant: range(1, transition_frames), the last frame lost
TransitionFramesShort(multi_export_all_frames) == PyRange(1, transition_frames, 1)
TransitionFrames(multi_export_all_frames) ==
  LET step == TransitionStep(multi_export_all_frames)
      r == PyRange(1, transition_frames + 1, step)
  IN IF r[Len(r)] # transition_frames THEN Append(r, transition_frames) ELSE r

\* lines 297-306: the pairs, and original_action read again
MultiTransitionsBegin ==
  /\ pc = "main"
  /\ UNCHANGED entry
  /\ cursor > Len(animations_to_export)
  /\ transitions' = TransitionPairs(animations_to_export)
  /\ original_action' = IF arm.animation_data THEN arm.action ELSE None
  /\ cursor' = 1
  /\ pc' = "transitions"
  /\ UNCHANGED << hostVars, animations_to_export, num_bones, original_frame,
                  all_matrix_data, frame_counts, frame_steps, animation_ranges,
                  total_frames, animation_helpers, frames_to_export, combined_data,
                  single, descriptor, result, msg >>

\* lines 308-386: one iteration of the loop over transitions
MultiTransition ==
  /\ pc = "transitions"
  /\ UNCHANGED entry
  /\ cursor <= Len(transitions)
  /\ LET src_item == animation_list[transitions[cursor][1]]
         dst_item == animation_list[transitions[cursor][2]]
         src_last == last_frame(actions, src_item)
         dst_first == first_frame(actions, dst_item)
         tr_name == TransitionName(actions[src_item.action].name,
                                   actions[dst_item.action].name)
         tr_id == Len(actions) + 1
         \* frame 1: last pose of the source, copied and pasted
         armS == FrameSet(actions, SetAction(arm, src_item.action), src_last)
         copy1 == armS.pose
         \* frame 10: first pose of the target, copied and pasted
         armD == FrameSet(actions, SetAction(armS, dst_item.action), dst_first)
         copy10 == armD.pose
         tr_action == [name |-> UniqueName(actions, tr_name), frame_range |-> <<2, 20>>,
                       nkeys |-> 2, key1 |-> copy1, key10 |-> copy10]
         acts1 == Append(actions, tr_action)
         frames == TransitionFrames(props.multi_export_all_frames)
         armT == [SetAction(armD, tr_id) EXCEPT !.mode = "POSE"]
     IN
     /\ actions' = acts1
     /\ clipboard' = copy10
     /\ frames_to_export' = frames
     /\ all_matrix_data' = Append(all_matrix_data,
          SampleBuffer(acts1, armT, frames, num_bones))
     /\ animation_helpers' = Append(animation_helpers,
          TransitionRecord(tr_name, total_frames))
     /\ total_frames' = total_frames + Len(frames)
     /\ frame_counts' = Append(frame_counts, Len(frames))
     /\ frame_steps' = Append(frame_steps, TransitionStep(props.multi_export_all_frames))
     /\ animation_ranges' = Append(animation_ranges, <<1, transition_frames>>)
     /\ scene' = [scene EXCEPT !.frame_current = frames[Len(frames)]]
     /\ arm' = FrameSet(acts1, armT, frames[Len(frames)])
     /\ cursor' = cursor + 1
     /\ UNCHANGED << animation_list, props, files, pc, animations_to_export, num_bones,
                     original_frame, original_action, transitions, combined_data,
                     single, descriptor, result, msg >>

\* ------------------------------------------------------------ serializer
\* np.concatenate(all_matrix_data)
RECURSIVE Concatenate(_)
Concatenate(bufs) ==
  IF bufs = << >> THEN << >> ELSE bufs[1] \o Concatenate(Tail(bufs))

\* "_To_" in a['name']: how the descriptor tells a transition from a main clip
IsTransitionName(name) == Contains(name, ToSep)

\* the setAnimationFrames calls, lines 418-435
SetupCalls(helpers, unit_name) ==
  LET rest_and_main == SelectSeq(helpers, LAMBDA a : ~IsTransitionName(a.name))
      trans == SelectSeq(helpers, LAMBDA a : IsTransitionName(a.name))
      call(a, flag) == [unit |-> unit_name, name |-> a.name, start_idx |-> a.start_idx,
                        end_idx |-> a.end_idx, rate |-> 30, isTransition |-> flag]
  IN [i \in 1..Len(rest_and_main) |-> call(rest_and_main[i], FALSE)]
     \o [i \in 1..Len(trans) |-> call(trans[i], TRUE)]

\* main_anims, lines 440-441
MainAnims(helpers, unit_name) ==
  LET rest_and_main == SelectSeq(helpers, LAMBDA a : ~IsTransitionName(a.name))
      kept == SelectSeq(rest_and_main, LAMBDA a : a.name # RestName(unit_name))
  IN [i \in 1..Len(kept) |-> kept[i].name]

\* src_dst of a transition's name, line 445
SrcDst(name, unit_name) == Split(Remove(name, unit_name \o <<"_">>), ToSep)

EmptyMap == [k \in {} |-> << >>]

\* trans_map, lines 442-449: src -> {dst: transition_name}
RECURSIVE BuildTransMap(_, _, _)
BuildTransMap(trans, unit_name, m) ==
  IF trans = << >> THEN m
  ELSE LET tr == trans[1]
           src_dst == SrcDst(tr.name, unit_name)
       IN
       IF Len(src_dst) # 2 THEN BuildTransMap(Tail(trans), unit_name, m)
       ELSE LET src == src_dst[1]
                dst == src_dst[2]
                inner == IF src \in DOMAIN m THEN m[src] ELSE EmptyMap
                inner1 == [k \in (DOMAIN inner) \cup {dst} |->
                             IF k = dst THEN tr.name ELSE inner[k]]
            IN BuildTransMap(Tail(trans), unit_name,
                 [k \in (DOMAIN m) \cup {src} |-> IF k = src THEN inner1 ELSE m[k]])

TransMap(helpers, unit_name) ==
  BuildTransMap(SelectSeq(helpers, LAMBDA a : IsTransitionName(a.name)), unit_name, EmptyMap)

\* the setAnimationTransitions groups, lines 453-459
TransitionGroups(helpers, unit_name) ==
  LET trans_map == TransMap(helpers, unit_name)
      main_anims == MainAnims(helpers, unit_name)
      srcs == SelectSeq(main_anims, LAMBDA src : src \in DOMAIN trans_map)
  IN [i \in 1..Len(srcs) |-> [unit |-> unit_name, src |-> srcs[i], map |-> trans_map[srcs[i]]]]

\* the .bin and the .js file of a binary export
BinFiles(base, floats) ==
  << [ext |-> "bin", base |-> base, floats |-> floats],
     [ext |-> "js", base |-> base, floats |-> 0] >>

\* the files opened for writing by the BIN branch: none when bpy.data.filepath is
\* empty, the raise of line 400 (584) coming before the first open()
\* variant: the .bin file is opened before the document path is looked at
OpenedFilesUnchecked(blend_path, base, floats) ==
  IF ~blend_path THEN << BinFiles(base, floats)[1] >> ELSE BinFiles(base, floats)
OpenedFiles(blend_path, base, floats) ==
  IF ~blend_path THEN << >> ELSE BinFiles(base, floats)

\* the key f"{property_name}{suffix}" of a custom property
Key(property_name, suffix) == << property_name, suffix >>

\* the armature's custom properties after lines 490-497
\* variant: an earlier list under property_name is kept
StoredPropertiesKeepOld(custom, P, matrix_list, total, nb, count, steps) ==
  [k \in (DOMAIN custom) \cup
         { Key(P, ""), Key(P, "_totalFrames"), Key(P, "_numBones"),
           Key(P, "_animationCount"), Key(P, "_frameSteps") } |->
     IF k \in DOMAIN custom THEN custom[k]
     ELSE CASE k = Key(P, "") -> matrix_list
            [] k = Key(P, "_totalFrames") -> total
            [] k = Key(P, "_numBones") -> nb
            [] k = Key(P, "_animationCount") -> count
            [] OTHER -> [str |-> steps]]
StoredProperties(custom, P, matrix_list, total, nb, count, steps) ==
  [k \in (DOMAIN custom) \cup
         { Key(P, ""), Key(P, "_totalFrames"), Key(P, "_numBones"),
           Key(P, "_animationCount"), Key(P, "_frameSteps") } |->
     CASE k = Key(P, "") -> matrix_list
       [] k = Key(P, "_totalFrames") -> total
       [] k = Key(P, "_numBones") -> nb
       [] k = Key(P, "_animationCount") -> count
       [] k = Key(P, "_frameSteps") -> [str |-> steps]
       [] OTHER -> custom[k]]

\* lines 388-512: restore the action, serialize, restore the frame
MultiExport ==
  /\ pc = "transitions"
  /\ UNCHANGED entry
  /\ cursor > Len(transitions)
  /\ LET arm1 == IF arm.animation_data /\ original_action # None
                 THEN [arm EXCEPT !.action = original_action] ELSE arm
         combined == Concatenate(all_matrix_data)
         arm3(a) == [FrameSet(actions, a, original_frame) EXCEPT !.mode = "OBJECT"]
         P == props.property_name
     IN
     /\ combined_data' = combined
     /\ \/ /\ props.export_method = "BIN"
           /\ \E blend_path \in BOOLEAN :
                /\ files' = files \o OpenedFiles(blend_path, props.unit_name,
                                                  Len(combined) * MatrixFloats)
                /\ IF ~blend_path
                   THEN /\ Fail("Please save your blend file first to use binary export")
                        /\ arm' = arm1
                        /\ UNCHANGED << scene, descriptor >>
                   ELSE
                     /\ descriptor' =
                          [setAnimationFrames |-> SetupCalls(animation_helpers, props.unit_name),
                           setAnimationTransitions |->
                             TransitionGroups(animation_helpers, props.unit_name),
                           trans_map |-> TransMap(animation_helpers, props.unit_name),
                           numBones |-> num_bones,
                           totalFrames |-> total_frames,
                           animationCount |-> Len(animation_helpers),
                           frameCounts |-> frame_counts,
                           frameSteps |-> frame_steps,
                           animationRanges |-> animation_ranges,
                           animationNames |->
                             [i \in 1..Len(animation_helpers) |-> animation_helpers[i].name]]
                     /\ arm' = arm3(arm1)
                     /\ scene' = [scene EXCEPT !.frame_current = original_frame]
                     /\ pc' = "done"
                     /\ result' = "FINISHED"
                     /\ msg' = "Exported"
        \/ /\ props.export_method = "PROPERTY"
           /\ LET custom1 == StoredProperties(arm.custom, P, combined, total_frames,
                                               num_bones, Len(animation_helpers),
                                               frame_steps)
              IN arm' = arm3([arm1 EXCEPT !.custom = custom1])
           /\ scene' = [scene EXCEPT !.frame_current = original_frame]
           /\ pc' = "done"
           /\ result' = "FINISHED"
           /\ msg' = "Stored"
           /\ UNCHANGED << files, descriptor >>
     /\ UNCHANGED << actions, animation_list, props, clipboard, animations_to_export,
                     num_bones, original_frame, original_action, all_matrix_data,
                     frame_counts, frame_steps, animation_ranges, total_frames,
                     animation_helpers, frames_to_export, transitions, cursor, single >>

\* ------------------------------------------- export_animation_frames_raw
\* frames_to_export of the single export, lines 560-565
SingleFrames(start_frame, end_frame, step, export_all_frames) ==
  IF export_all_frames THEN PyRange(start_frame, end_frame + 1, 1)
  ELSE LET r == PyRange(start_frame, end_frame + 1, step) IN
       IF r[Len(r)] # end_frame THEN Append(r, end_frame) ELSE r

SingleFail(m) ==
  /\ Fail(m)
  /\ UNCHANGED << hostVars, localVars >>

\* lines 527-567: the checks, the resolved range and the frames
SingleBegin ==
  /\ pc = "idle"
  /\ UNCHANGED entry
  /\ props.export_mode = "SINGLE"
  /\ LET has_action == arm.animation_data /\ arm.action # None
         action_name == IF has_action THEN actions[arm.action].name ELSE << >>
         use_name == ~props.use_custom_name /\ action_name # << >>
         animation_name == IF use_name THEN action_name ELSE props.animation_name
         full == props.use_full_animation_range
         \* the arguments ExportAnimationOperator.execute passes
         arg_start == IF props.start_frame # 0 /\ ~full THEN props.start_frame ELSE None
         arg_end == IF props.end_frame # 0 /\ ~full THEN props.end_frame ELSE None
         start_frame == IF full THEN 1
                        ELSE IF arg_start = None THEN scene.frame_start ELSE arg_start
         end_frame == IF full THEN PyInt(actions[arm.action].frame_range[2])
                      ELSE IF arg_end = None THEN scene.frame_end ELSE arg_end
     IN
     IF ~arm.present THEN SingleFail("Please select an armature object first")
     ELSE IF ~use_name /\ animation_name = << >>
     THEN SingleFail("Please provide an animation name or ensure the armature has an action")
     ELSE IF full /\ ~has_action THEN SingleFail("No animation found for full range export")
     ELSE IF start_frame > end_frame THEN SingleFail("Start frame cannot be after end frame")
     ELSE /\ single' = [animation_name |-> animation_name, start_frame |-> start_frame,
                        end_frame |-> end_frame, current_frame |-> scene.frame_current,
                        num_frames |-> 0]
          /\ num_bones' = NumBones
          /\ frames_to_export' = SingleFrames(start_frame, end_frame, props.frame_step,
                                              props.export_all_frames)
          /\ pc' = "single_sample"
          /\ UNCHANGED << hostVars, animations_to_export, original_frame, original_action,
                          all_matrix_data, frame_counts, frame_steps, animation_ranges,
                          total_frames, animation_helpers, transitions, cursor,
                          combined_data, descriptor, result, msg >>

\* lines 567-579: the sampling loop
SingleSample ==
  /\ pc = "single_sample"
  /\ UNCHANGED entry
  /\ LET num_frames == Len(frames_to_export)
         last == frames_to_export[num_frames]
     IN
     /\ single' = [single EXCEPT !.num_frames = num_frames]
     /\ all_matrix_data' = SampleBuffer(actions, arm, frames_to_export, num_bones)
     /\ scene' = [scene EXCEPT !.frame_current = last]
     /\ arm' = FrameSet(actions, arm, last)
     /\ pc' = "single_export"
     /\ UNCHANGED << actions, animation_list, props, files, clipboard,
                     animations_to_export, num_bones, original_frame, original_action,
                     frame_counts, frame_steps, animation_ranges, total_frames,
                     animation_helpers, frames_to_export, transitions, cursor,
                     combined_data, descriptor, result, msg >>

\* lines 581-631: serialize, restore the frame
SingleExport ==
  /\ pc = "single_export"
  /\ UNCHANGED entry
  /\ LET P == props.property_name
         arm3(a) == [FrameSet(actions, a, single.current_frame) EXCEPT !.mode = "OBJECT"]
     IN
     \/ /\ props.export_method = "BIN"
        /\ \E blend_path \in BOOLEAN :
             /\ files' = files \o OpenedFiles(blend_path, single.animation_name,
                                               Len(all_matrix_data) * MatrixFloats)
             /\ IF ~blend_path
                THEN /\ Fail("Please save your blend file first to use binary export")
                     /\ UNCHANGED << arm, scene, descriptor >>
                ELSE
                  /\ descriptor' =
                       [numBones |-> num_bones, numFrames |-> single.num_frames,
                        startFrame |-> single.start_frame, endFrame |-> single.end_frame,
                        frameStep |-> props.frame_step,
                        exportAllFrames |-> props.export_all_frames,
                        setAnimationFrames |->
                          << [name |-> single.animation_name, start_idx |-> 0,
                              end_idx |-> single.num_frames - 1, rate |-> 30] >>]
                  /\ arm' = arm3(arm)
                  /\ scene' = [scene EXCEPT !.frame_current = single.current_frame]
                  /\ pc' = "done"
                  /\ result' = "FINISHED"
                  /\ msg' = "Exported"
     \/ /\ props.export_method = "PROPERTY"
        /\ LET custom1 ==
                 [k \in (DOMAIN arm.custom) \cup
                        { <<P, "">>, <<P, "_numFrames">>, <<P, "_numBones">> } |->
                    CASE k = <<P, "">> -> all_matrix_data
                      [] k = <<P, "_numFrames">> -> single.num_frames
                      [] k = <<P, "_numBones">> -> num_bones
                      [] OTHER -> arm.custom[k]]
           IN arm' = arm3([arm EXCEPT !.custom = custom1])
        /\ scene' = [scene EXCEPT !.frame_current = single.current_frame]
        /\ pc' = "done"
        /\ result' = "FINISHED"
        /\ msg' = "Stored"
        /\ UNCHANGED << files, descriptor >>
  /\ UNCHANGED << actions, animation_list, props, clipboard, animations_to_export,
                  num_bones, original_frame, original_action, all_matrix_data,
                  frame_counts, frame_steps, animation_ranges, total_frames,
                  animation_helpers, frames_to_export, transitions, cursor,
                  combined_data, single >>

Next ==
  \/ MultiBegin
  \/ MultiMainClip
  \/ MultiTransitionsBegin
  \/ MultiTransition
  \/ MultiExport
  \/ SingleBegin
  \/ SingleSample
  \/ SingleExport

Spec == Init /\ [][Next]_vars

\* ================================================================== claims
\* the list item whose main-pass iteration has just run
JustSampled ==
  pc = "main" /\ cursor > 1

LastItem == animation_list[animations_to_export[cursor - 1]]

\* frames is the stepped sequence of [start, end] that always ends on end
SteppedToEnd(frames, start, end, step) ==
  /\ Len(frames) >= 1
  /\ frames[1] = start
  /\ frames[Len(frames)] = end
  /\ \A i \in 1..(Len(frames) - 1) : frames[i] < frames[i + 1]
  /\ \A i \in 1..(Len(frames) - 1) : \E k \in 0..(end - start) : frames[i] = start + k * step

\* C1: with export_all_frames false, the frame index sequence of a main clip (multi
\* export) and of the single export is strictly increasing, starts at start, ends at
\* end, and every element but possibly the last is start + k*step.
C1_FrameSequence ==
  /\ (JustSampled /\ ~props.multi_export_all_frames) =>
       SteppedToEnd(frames_to_export, ItemStart(actions, LastItem),
                    ItemEnd(actions, LastItem), LastItem.frame_step)
  /\ (pc = "single_sample" /\ ~props.export_all_frames) =>
       SteppedToEnd(frames_to_export, single.start_frame, single.end_frame,
                    props.frame_step)

\* a main clip whose step skips the end frame, which is then appended
C1_Witness ==
  /\ JustSampled
  /\ ~props.multi_export_all_frames
  /\ Len(frames_to_export) >= 3
  /\ frames_to_export[Len(frames_to_export)] - frames_to_export[Len(frames_to_export) - 1]
       < LastItem.frame_step

\* every integer of [start, end], in increasing order
EveryFrame(frames, start, end) ==
  /\ Len(frames) = end - start + 1
  /\ \A i \in 1..Len(frames) : frames[i] = start + i - 1

\* C2: with export_all_frames true the frame index sequence is every integer of
\* [start, end] whatever the step setting, and multi export records step 1 for the clip.
C2_AllFrames ==
  /\ (JustSampled /\ props.multi_export_all_frames) =>
       /\ EveryFrame(frames_to_export, ItemStart(actions, LastItem),
                     ItemEnd(actions, LastItem))
       /\ frame_steps[Len(frame_steps)] = 1
  /\ (pc = "single_sample" /\ props.export_all_frames) =>
       EveryFrame(frames_to_export, single.start_frame, single.end_frame)

\* a clip with a step above 1 exported with every frame
C2_Witness ==
  /\ JustSampled
  /\ props.multi_export_all_frames
  /\ LastItem.frame_step > 1
  /\ Len(frames_to_export) >= 3

\* C3: at every point of a multi export the clip records start at 0 and are
\* contiguous in creation order, the last one ending at total_frames - 1.
C3_Contiguous ==
  (props.export_mode = "MULTI" /\ animation_helpers # << >>) =>
    /\ animation_helpers[1].start_idx = 0
    /\ \A i \in 1..Len(animation_helpers) :
         animation_helpers[i].start_idx <= animation_helpers[i].end_idx
    /\ \A i \in 1..(Len(animation_helpers) - 1) :
         animation_helpers[i].end_idx + 1 = animation_helpers[i + 1].start_idx
    /\ animation_helpers[Len(animation_helpers)].end_idx + 1 = total_frames

\* rest pose, main clips and at least one transition are recorded
C3_Witness ==
  /\ pc = "transitions"
  /\ cursor > 1
  /\ Len(animation_helpers) > Len(animations_to_export) + 1
  /\ \E i \in 1..Len(frame_counts) : frame_counts[i] \notin {1, transition_frames}

RECURSIVE SumSpans(_)
SumSpans(records) ==
  IF records = << >> THEN 0
  ELSE (records[1].end_idx - records[1].start_idx + 1) + SumSpans(Tail(records))

MultiFinishedBin ==
  /\ props.export_mode = "MULTI"
  /\ pc = "done"
  /\ result = "FINISHED"
  /\ props.export_method = "BIN"

\* C4: in the descriptor of a successful multi export totalFrames is the sum of the
\* records' spans and every record's span is its entry of frameCounts.
C4_TotalFrames ==
  MultiFinishedBin =>
    /\ Len(descriptor.setAnimationFrames) = Len(animation_helpers)
    /\ descriptor.totalFrames = SumSpans(descriptor.setAnimationFrames)
    /\ descriptor.totalFrames = SumSpans(animation_helpers)
    /\ Len(descriptor.frameCounts) = Len(animation_helpers)
    /\ \A i \in 1..Len(animation_helpers) :
         animation_helpers[i].end_idx - animation_helpers[i].start_idx + 1
           = descriptor.frameCounts[i]

\* a finished export with transitions and a clip of several frames
C4_Witness ==
  /\ MultiFinishedBin
  /\ Len(transitions) >= 2
  /\ \E i \in 1..Len(frame_counts) : frame_counts[i] \notin {1, transition_frames}

\* C5: every clip contributes len(frames) * num_bones * 16 floats, and the payload
\* that is serialized has total_frames * num_bones * 16 floats (num_frames * num_bones
\* * 16 in single export).
C5_BufferLength ==
  /\ (props.export_mode = "MULTI" /\ pc \in {"main", "transitions"}) =>
       /\ Len(all_matrix_data) = Len(frame_counts)
       /\ \A i \in 1..Len(all_matrix_data) :
            Len(all_matrix_data[i]) * MatrixFloats = frame_counts[i] * num_bones * 16
       /\ cursor > 1 =>
            Len(all_matrix_data[Len(all_matrix_data)]) * MatrixFloats
              = Len(frames_to_export) * num_bones * 16
  /\ (props.export_mode = "MULTI" /\ pc = "done" /\ result = "FINISHED") =>
       Len(combined_data) * MatrixFloats = total_frames * num_bones * 16
  /\ MultiFinishedBin => files[1].floats = total_frames * num_bones * 16
  /\ (props.export_mode = "SINGLE" /\ pc = "single_export") =>
       Len(all_matrix_data) * MatrixFloats = Len(frames_to_export) * num_bones * 16
  /\ (props.export_mode = "SINGLE" /\ pc = "done" /\ result = "FINISHED") =>
       /\ Len(all_matrix_data) * MatrixFloats = single.num_frames * num_bones * 16
       /\ props.export_method = "BIN" => files[1].floats = single.num_frames * num_bones * 16

\* a written payload of rest pose, stepped clips and transitions
C5_Witness ==
  /\ MultiFinishedBin
  /\ num_bones > 1
  /\ Len(transitions) >= 2
  /\ total_frames > 1 + Len(animations_to_export) + transition_frames * Len(transitions)

\* the included list items, in list order
IncludedItems ==
  SelectSeq([i \in 1..Len(animation_list) |-> i],
            LAMBDA i : animation_list[i].include /\ animation_list[i].action # None)

ItemName(i) == actions[animation_list[i].action].name

\* every clip of the run has its record
AllRecorded ==
  /\ props.export_mode = "MULTI"
  /\ \/ pc = "transitions" /\ cursor > Len(transitions)
     \/ pc = "done" /\ msg \in {"Exported", "Stored",
                                "Please save your blend file first to use binary export"}

\* C6: the record list is the rest pose [0,0], the included clips in selection
\* order, then every ordered pair of distinct clips, sources outer and destinations
\* inner: 1 + n + n*(n-1) records.
C6_RecordOrder ==
  AllRecorded =>
    LET inc == IncludedItems
        n == Len(inc)
        pairs == n * (n - 1)
        src(k) == ((k - 1) \div (n - 1)) + 1
        rank(k) == ((k - 1) % (n - 1)) + 1
        dst(k) == IF rank(k) < src(k) THEN rank(k) ELSE rank(k) + 1
    IN
    /\ Len(animation_helpers) = 1 + n + pairs
    /\ Len(transitions) = pairs
    /\ animation_helpers[1] =
         [name |-> RestName(props.unit_name), start_idx |-> 0, end_idx |-> 0]
    /\ \A k \in 1..n : animation_helpers[1 + k].name = ItemName(inc[k])
    /\ \A k \in 1..pairs :
         /\ transitions[k] = << inc[src(k)], inc[dst(k)] >>
         /\ animation_helpers[1 + n + k].name
              = ItemName(inc[src(k)]) \o ToSep \o ItemName(inc[dst(k)])

\* three included clips, hence six transitions, all recorded
C6_Witness ==
  /\ AllRecorded
  /\ Len(IncludedItems) >= 3
  /\ Len(animation_helpers) >= 10

\* a transition has just been synthesized
JustSynthesized ==
  pc = "transitions" /\ cursor > 1

\* C7: every transition samples scene frames 1..10 in order and gets a record of
\* exactly 10 positions, for either value of multi_export_all_frames; total_frames
\* grows by the record's span.
C7_TenPositions ==
  JustSynthesized =>
    LET r == animation_helpers[Len(animation_helpers)]
        buf == all_matrix_data[Len(all_matrix_data)]
    IN
    /\ frames_to_export = <<1, 2, 3, 4, 5, 6, 7, 8, 9, 10>>
    /\ r.end_idx = r.start_idx + 9
    /\ frame_counts[Len(frame_counts)] = 10
    /\ total_frames - r.start_idx = r.end_idx - r.start_idx + 1
    /\ Len(buf) = 10 * num_bones
    /\ \A p \in 1..10 : \A b \in 1..num_bones :
         buf[(p - 1) * num_bones + b] = [pose |-> EvalPose(actions, arm, p), bone |-> b]

\* a transition between stepped clips, baked without the all-frames flag
C7_Witness ==
  /\ JustSynthesized
  /\ ~props.multi_export_all_frames
  /\ animation_list[transitions[cursor - 1][1]].frame_step > 1
  /\ animation_list[transitions[cursor - 1][2]].frame_step > 1

\* the place of list item i among the exported clips
PlaceOf(i) == CHOOSE k \in 1..Len(animations_to_export) : animations_to_export[k] = i

\* C8: position 1 of a transition holds the source clip's pose at the last frame the
\* main pass sampled for it, position 10 the destination's pose at its first sampled
\* frame; last_frame and first_frame resolve to the end and start of the main pass.
C8_BoundaryPoses ==
  (props.export_mode = "MULTI" /\ pc = "transitions") =>
    \A t \in 1..(cursor - 1) :
      LET n == Len(animations_to_export)
          s == transitions[t][1]
          d == transitions[t][2]
          srcBuf == all_matrix_data[1 + PlaceOf(s)]
          dstBuf == all_matrix_data[1 + PlaceOf(d)]
          trBuf == all_matrix_data[1 + n + t]
      IN
      /\ \A b \in 1..num_bones :
           /\ trBuf[b] = srcBuf[Len(srcBuf) - num_bones + b]
           /\ trBuf[9 * num_bones + b] = dstBuf[b]
      /\ trBuf[1].pose =
           KeyedPose(animation_list[s].action, animation_ranges[1 + PlaceOf(s)][2])
      /\ trBuf[9 * num_bones + 1].pose =
           KeyedPose(animation_list[d].action, animation_ranges[1 + PlaceOf(d)][1])

\* a transition from a clip with a custom end to a clip with custom_end = 0
C8_Witness ==
  /\ JustSynthesized
  /\ LET src_item == animation_list[transitions[cursor - 1][1]]
         dst_item == animation_list[transitions[cursor - 1][2]]
     IN
     /\ ~src_item.use_full_range
     /\ src_item.custom_end # 0
     /\ src_item.custom_end # PyInt(actions[src_item.action].frame_range[2])
     /\ ~dst_item.use_full_range
     /\ dst_item.custom_end = 0
     /\ dst_item.custom_start # PyInt(actions[dst_item.action].frame_range[1])

\* C9: for every ordered pair of distinct included clips whose transition name
\* splits into exactly two parts, the adjacency map holds the transition's name
\* under map[src clip name][dst clip name], the keys being the clips' own names.
C9_Adjacency ==
  MultiFinishedBin =>
    \A t \in 1..Len(transitions) :
      LET src_name == ItemName(transitions[t][1])
          dst_name == ItemName(transitions[t][2])
          tr_name == src_name \o ToSep \o dst_name
      IN
      Len(SrcDst(tr_name, props.unit_name)) = 2 =>
        /\ src_name \in DOMAIN descriptor.trans_map
        /\ dst_name \in DOMAIN descriptor.trans_map[src_name]
        /\ descriptor.trans_map[src_name][dst_name] = tr_name

\* C10: the descriptor holds exactly one setAnimationTransitions group for every
\* main clip that is the source of a transition (every included clip when two or
\* more are included) and none for the rest pose.
C10_Groups ==
  MultiFinishedBin =>
    LET groups == descriptor.setAnimationTransitions
        sources == { ItemName(transitions[t][1]) : t \in 1..Len(transitions) }
    IN
    /\ \A g \in 1..Len(groups) : groups[g].src # RestName(props.unit_name)
    /\ \A g \in 1..Len(groups) : groups[g].src \in sources
    /\ \A name \in sources :
         Cardinality({ g \in 1..Len(groups) : groups[g].src = name }) = 1

\* the failures raised once the run has moved the scene's frame or set the action
SaveMessage == "Please save your blend file first to use binary export"
RangeMessage == "Start frame cannot be after end frame"

FailedAfterChange ==
  /\ pc = "done"
  /\ result = "CANCELLED"
  /\ \/ props.export_mode = "MULTI" /\ msg \in {RangeMessage, SaveMessage}
     \/ props.export_mode = "SINGLE" /\ msg = SaveMessage

\* C11: when an export fails after the scene's frame or the armature's action was
\* changed, the frame and the action are back to their values from before the
\* export once CANCELLED is returned.
C11_Restored ==
  FailedAfterChange =>
    /\ scene.frame_current = entry.scene.frame_current
    /\ arm.action = entry.arm.action

\* every matrix buffer of the run is complete: rest pose, main clips and
\* transitions in multi export, the one array of single export
AllBuffersAssembled ==
  IF props.export_mode = "MULTI"
  THEN LET n == Len(IncludedItems) IN
       /\ Len(all_matrix_data) = 1 + n + n * (n - 1)
       /\ Len(frame_counts) = Len(all_matrix_data)
       /\ \A i \in 1..Len(all_matrix_data) :
            Len(all_matrix_data[i]) = frame_counts[i] * num_bones
       /\ combined_data = Concatenate(all_matrix_data)
  ELSE /\ single.num_frames = Len(frames_to_export)
       /\ Len(all_matrix_data) = single.num_frames * num_bones

\* C12: no file is written before every matrix buffer of the run is assembled,
\* and an export that returns CANCELLED (no armature, nothing included, invalid
\* range, unsaved document) has written no binary file and no descriptor.
C12_FilesAfterBuffers ==
  /\ pc # "done" => files = << >> /\ descriptor = << >>
  /\ files # << >> =>
       /\ AllBuffersAssembled
       /\ result = "FINISHED"
       /\ Len(files) = 2
       /\ files[1].floats =
            (IF props.export_mode = "MULTI" THEN Len(combined_data)
             ELSE Len(all_matrix_data)) * MatrixFloats
  /\ (pc = "done" /\ result = "CANCELLED") => files = << >> /\ descriptor = << >>

\* a binary multi export that sampled clips and transitions and then found the
\* document unsaved
C12_Witness ==
  /\ pc = "done"
  /\ result = "CANCELLED"
  /\ msg = SaveMessage
  /\ props.export_mode = "MULTI"
  /\ Len(transitions) >= 2
  /\ Len(all_matrix_data) = 1 + Len(animations_to_export) + Len(transitions)
  /\ files = << >>

\* the range the settings of list item i ask for: the action's own range, or the
\* custom start with the custom end (the action's end when custom_end is 0)
ResolvedStart(i) ==
  IF animation_list[i].use_full_range
  THEN PyInt(actions[animation_list[i].action].frame_range[1])
  ELSE animation_list[i].custom_start

ResolvedEnd(i) ==
  IF animation_list[i].use_full_range \/ animation_list[i].custom_end = 0
  THEN PyInt(actions[animation_list[i].action].frame_range[2])
  ELSE animation_list[i].custom_end

\* the range of the single export, where it is defined
SingleHasAction == arm.animation_data /\ arm.action # None

SingleResolvedStart ==
  IF props.use_full_animation_range THEN 1
  ELSE IF props.start_frame # 0 THEN props.start_frame ELSE scene.frame_start

SingleResolvedEnd ==
  IF props.use_full_animation_range THEN PyInt(actions[arm.action].frame_range[2])
  ELSE IF props.end_frame # 0 THEN props.end_frame ELSE scene.frame_end

SingleRangeInvalid ==
  /\ props.use_full_animation_range => SingleHasAction
  /\ SingleResolvedStart > SingleResolvedEnd

\* C13: an included clip (multi export) or the single clip whose resolved start is
\* after its resolved end makes the export return CANCELLED with an error message;
\* no clip with such a range is ever sampled, and no file or armature property is
\* written.
C13_InvalidRangeFails ==
  /\ (props.export_mode = "MULTI" /\ arm.present /\ pc = "done"
        /\ \E k \in 1..Len(IncludedItems) :
             ResolvedStart(IncludedItems[k]) > ResolvedEnd(IncludedItems[k])) =>
       /\ result = "CANCELLED"
       /\ msg = RangeMessage
       /\ files = << >>
       /\ arm.custom = entry.arm.custom
  /\ (props.export_mode = "MULTI" /\ pc \in {"main", "transitions"}) =>
       \A k \in 1..(IF pc = "main" THEN cursor - 1 ELSE Len(animations_to_export)) :
         /\ ResolvedStart(animations_to_export[k]) <= ResolvedEnd(animations_to_export[k])
         /\ animation_ranges[1 + k] = << ResolvedStart(animations_to_export[k]),
                                         ResolvedEnd(animations_to_export[k]) >>
         /\ all_matrix_data[1 + k] # << >>
  /\ (props.export_mode = "SINGLE" /\ arm.present /\ pc = "done" /\ SingleRangeInvalid) =>
       /\ result = "CANCELLED"
       /\ msg \in {RangeMessage,
                   "Please provide an animation name or ensure the armature has an action"}
       /\ files = << >>
       /\ arm.custom = entry.arm.custom
       /\ all_matrix_data = << >>
  /\ (props.export_mode = "SINGLE" /\ pc \in {"single_sample", "single_export"}) =>
       /\ single.start_frame <= single.end_frame
       /\ frames_to_export # << >>

\* a multi export stopped by the empty custom range of a clip that is not the
\* first one, after earlier clips were sampled
C13_Witness ==
  /\ props.export_mode = "MULTI"
  /\ pc = "done"
  /\ msg = RangeMessage
  /\ cursor >= 2
  /\ Len(all_matrix_data) = cursor
  /\ ResolvedStart(animations_to_export[cursor]) > ResolvedEnd(animations_to_export[cursor])

\* the export has nothing to work on: no armature, or (multi) nothing included
NothingToExport ==
  \/ ~entry.arm.present
  \/ props.export_mode = "MULTI" /\ IncludedItems = << >>

\* C14: with no armature as the active object, or a multi export with no included
\* clip that has an action, the export returns CANCELLED with an error message and
\* the host untouched: frame, action, pose and the set of actions are as before
\* and nothing is written.
C14_FailsUntouched ==
  /\ (NothingToExport /\ pc # "idle") =>
       /\ pc = "done"
       /\ result = "CANCELLED"
       /\ msg = (IF ~entry.arm.present THEN "Please select an armature object first"
                 ELSE "No animations selected for export")
       /\ scene = entry.scene
       /\ arm = entry.arm
       /\ actions = entry.actions
       /\ clipboard = NoPose
       /\ files = << >>
       /\ descriptor = << >>
       /\ all_matrix_data = << >>
  /\ (NothingToExport /\ pc = "idle") =>
       scene = entry.scene /\ arm = entry.arm /\ actions = entry.actions

\* a multi export on an armature whose list has every clip excluded
C14_Witness ==
  /\ pc = "done"
  /\ props.export_mode = "MULTI"
  /\ arm.present
  /\ Len(animation_list) >= 2
  /\ IncludedItems = << >>
  /\ result = "CANCELLED"

MultiFinishedProperty ==
  /\ props.export_mode = "MULTI"
  /\ pc = "done"
  /\ result = "FINISHED"
  /\ props.export_method = "PROPERTY"

\* C15: a successful multi export to the armature leaves P, P_totalFrames,
\* P_numBones, P_animationCount and P_frameSteps holding this run's values,
\* whatever was under those keys before; the list under P has P_totalFrames *
\* P_numBones * 16 elements; no file is written and the export never asks for a
\* saved document.
C15_StoredProperties ==
  /\ MultiFinishedProperty =>
       LET P == props.property_name
           c == arm.custom
       IN
       /\ { <<P, "">>, <<P, "_totalFrames">>, <<P, "_numBones">>,
            <<P, "_animationCount">>, <<P, "_frameSteps">> } \subseteq DOMAIN c
       /\ c[<<P, "">>] = Concatenate(all_matrix_data)
       /\ c[<<P, "_totalFrames">>] = total_frames
       /\ c[<<P, "_numBones">>] = num_bones
       /\ c[<<P, "_animationCount">>] = Len(animation_helpers)
       /\ c[<<P, "_frameSteps">>] = [str |-> frame_steps]
       /\ Len(c[<<P, "">>]) * MatrixFloats
            = c[<<P, "_totalFrames">>] * c[<<P, "_numBones">>] * 16
       /\ files = << >>
       /\ descriptor = << >>
  /\ (props.export_mode = "MULTI" /\ props.export_method = "PROPERTY" /\ pc = "done") =>
       msg # SaveMessage

\* a stored export of clips and transitions over the values of an earlier export
C15_Witness ==
  /\ MultiFinishedProperty
  /\ entry.arm.custom = StaleProps
  /\ Len(transitions) >= 2
  /\ arm.custom[<<props.property_name, "_totalFrames">>] > transition_frames

\* C16: when a multi export has returned, successfully or not, the host's actions
\* are the ones it had before the run: no transition action made by the run is
\* left behind.
C16_NoLeftovers ==
  (props.export_mode = "MULTI" /\ pc = "done") =>
    /\ Len(actions) = Len(entry.actions)
    /\ actions = entry.actions

MultiFinished ==
  /\ props.export_mode = "MULTI"
  /\ pc = "done"
  /\ result = "FINISHED"

\* C17: after a successful multi export the scene is on the frame it was on when
\* the export started, the armature's active action is the one that was active
\* then, and the armature is in OBJECT mode.
C17_StateRestored ==
  MultiFinished =>
    /\ scene.frame_current = entry.scene.frame_current
    /\ arm.action = entry.arm.action
    /\ arm.mode = "OBJECT"

\* the clip record a setup call was written from (start indices are distinct)
RecordOf(call) ==
  CHOOSE i \in 1..Len(animation_helpers) :
    /\ animation_helpers[i].start_idx = call.start_idx
    /\ animation_helpers[i].name = call.name

\* C18: in the descriptor of a binary multi export a setup call carries
\* isTransition exactly when its record was made by the transition synthesizer:
\* not the rest pose, not a main clip, every transition, whatever the names.
C18_TransitionFlag ==
  MultiFinishedBin =>
    LET calls == descriptor.setAnimationFrames
        n == Len(animations_to_export)
    IN
    /\ Len(calls) = Len(animation_helpers)
    /\ \A c \in 1..Len(calls) :
         calls[c].isTransition <=> RecordOf(calls[c]) > 1 + n

====
